---- MODULE Spec2Model ----
(***************************************************************************)
(* A model of the in-memory table store of src/src/main.rs: the DB struct  *)
(* (a table -> field -> bytes namespace behind one tokio RwLock), its       *)
(* async operations, and the MessagePack codec (rmp_serde) that turns the  *)
(* caller's typed values into the stored bytes and back.                   *)
(*                                                                         *)
(* Strings are sequences of byte values (ASCII), byte vectors are          *)
(* sequences of 0..255.  A HashMap is a function whose DOMAIN is the set   *)
(* of keys present.                                                        *)
(***************************************************************************)
EXTENDS Integers, Sequences, FiniteSets, TLC

\* ------------------------------------------------------------------------
\* Bounds of the model
\* ------------------------------------------------------------------------

\* number of tasks that call into one DB concurrently
NumTasks == 2

Tasks == 1..NumTasks

\* the tasks of the race specification: one more than in Spec, so that two
\* writers and a creator that is still in flight can meet
RaceTasks == 1..(NumTasks + 1)

\* the single caller of the sequential specification (main awaits each call)
MainTask == 1

NoTask == 0

\* ------------------------------------------------------------------------
\* Names and values used as inputs
\* ------------------------------------------------------------------------

\* "accounts"
accounts == <<97, 99, 99, 111, 117, 110, 116, 115>>

\* "test"
test == <<116, 101, 115, 116>>

\* "balance"
balance == <<98, 97, 108, 97, 110, 99, 101>>

\* "name"
name == <<110, 97, 109, 101>>

\* "alice"
alice == <<97, 108, 105, 99, 101>>

\* a typed value handed to append_data: T is i64, bool or String
IntVal(n) == [ty |-> "int", v |-> n]

BoolVal(b) == [ty |-> "bool", v |-> b]

StrVal(s) == [ty |-> "str", v |-> s]

NoVal == [ty |-> "none", v |-> 0]

\* a value of a type T whose Serialize implementation reports an error
UnserVal == [ty |-> "unser", v |-> 0]

Types == {"int", "bool", "str"}

\* ------------------------------------------------------------------------
\* Codec: rmp_serde::to_vec / rmp_serde::from_slice on a single value
\* ------------------------------------------------------------------------

\* write_sint without the uint8 marker: 128..255 written as one raw byte
write_sint_raw(n) ==
  IF n >= 0 /\ n < 256 THEN <<n>>
  ELSE IF n >= 256 /\ n < 65536 THEN <<205, n \div 256, n % 256>>
  ELSE IF n < 0 /\ n >= -32 THEN <<256 + n>>
  ELSE IF n < -32 /\ n >= -128 THEN <<208, 256 + n>>
  ELSE <<209, ((65536 + n) \div 256) % 256, (65536 + n) % 256>>

\* i64 is written in the most compact MessagePack integer form
write_sint(n) ==
  IF n >= 0 /\ n < 128 THEN <<n>>
  ELSE IF n >= 128 /\ n < 256 THEN <<204, n>>
  ELSE IF n >= 256 /\ n < 65536 THEN <<205, n \div 256, n % 256>>
  ELSE IF n < 0 /\ n >= -32 THEN <<256 + n>>
  ELSE IF n < -32 /\ n >= -128 THEN <<208, 256 + n>>
  ELSE <<209, ((65536 + n) \div 256) % 256, (65536 + n) % 256>>

\* a str of fewer than 32 bytes is a fixstr, up to 255 bytes a str8
write_str(s) ==
  IF Len(s) < 32 THEN <<160 + Len(s)>> \o s ELSE <<217, Len(s)>> \o s

write_bool(b) == IF b THEN <<195>> ELSE <<194>>

\* convert_into_data_type: the stored bytes of a typed value
convert_into_data_type(data) ==
  CASE data.ty = "int" -> write_sint(data.v)
    [] data.ty = "bool" -> write_bool(data.v)
    [] data.ty = "str" -> write_str(data.v)

\* rmp_serde::to_vec(data) is Ok: convert_into_data_type returns the bytes;
\* otherwise it panics
Encodes(data) == data.ty \in Types

DecodeErr == [ok |-> FALSE, val |-> NoVal]

Decoded(val) == [ok |-> TRUE, val |-> val]

\* the bytes are ASCII text (the model's strings are ASCII; a byte above 127
\* never starts a valid one-byte UTF-8 character)
IsText(s) == \A i \in 1..Len(s) : s[i] < 128

\* read_int that also takes the bool markers, as 0 and 1
read_int_lenient(b) ==
  IF Len(b) = 0 THEN DecodeErr
  ELSE IF b[1] < 128 THEN Decoded(IntVal(b[1]))
  ELSE IF b[1] >= 224 THEN Decoded(IntVal(b[1] - 256))
  ELSE IF b[1] = 194 \/ b[1] = 195 THEN Decoded(IntVal(b[1] - 194))
  ELSE IF b[1] = 204 /\ Len(b) >= 2 THEN Decoded(IntVal(b[2]))
  ELSE IF b[1] = 205 /\ Len(b) >= 3 THEN Decoded(IntVal(b[2] * 256 + b[3]))
  ELSE DecodeErr

\* i64::deserialize: every MessagePack integer marker is accepted
read_int(b) ==
  IF Len(b) = 0 THEN DecodeErr
  ELSE IF b[1] < 128 THEN Decoded(IntVal(b[1]))
  ELSE IF b[1] >= 224 THEN Decoded(IntVal(b[1] - 256))
  ELSE IF b[1] = 204 /\ Len(b) >= 2 THEN Decoded(IntVal(b[2]))
  ELSE IF b[1] = 205 /\ Len(b) >= 3 THEN Decoded(IntVal(b[2] * 256 + b[3]))
  ELSE IF b[1] = 208 /\ Len(b) >= 2
    THEN Decoded(IntVal(IF b[2] >= 128 THEN b[2] - 256 ELSE b[2]))
  ELSE IF b[1] = 209 /\ Len(b) >= 3
    THEN Decoded(IntVal(IF b[2] >= 128 THEN b[2] * 256 + b[3] - 65536
                        ELSE b[2] * 256 + b[3]))
  ELSE DecodeErr

\* bool::deserialize: only the two bool markers are accepted
read_bool(b) ==
  IF Len(b) = 0 THEN DecodeErr
  ELSE IF b[1] = 195 THEN Decoded(BoolVal(TRUE))
  ELSE IF b[1] = 194 THEN Decoded(BoolVal(FALSE))
  ELSE DecodeErr

\* String::deserialize: a str marker, its length, and that many text bytes
read_string(b) ==
  IF Len(b) = 0 THEN DecodeErr
  ELSE IF b[1] >= 160 /\ b[1] < 192 /\ Len(b) >= 1 + (b[1] - 160)
          /\ IsText(SubSeq(b, 2, 1 + (b[1] - 160)))
    THEN Decoded(StrVal(SubSeq(b, 2, 1 + (b[1] - 160))))
  ELSE IF b[1] = 217 /\ Len(b) >= 2 /\ Len(b) >= 2 + b[2]
          /\ IsText(SubSeq(b, 3, 2 + b[2]))
    THEN Decoded(StrVal(SubSeq(b, 3, 2 + b[2])))
  ELSE DecodeErr

\* rebuild_from_data_type::<T>: decode the stored bytes as the requested T
rebuild_from_data_type(ty, serialized_data) ==
  CASE ty = "int" -> read_int(serialized_data)
    [] ty = "bool" -> read_bool(serialized_data)
    [] ty = "str" -> read_string(serialized_data)

\* ------------------------------------------------------------------------
\* The namespace: HashMap<String, HashMap<String, Vec<u8>>>
\* ------------------------------------------------------------------------

\* HashMap::new()
EmptyMap == [k \in {} |-> <<>>]

\* Insert that keeps the entry of a key that is present
Insert_keep(m, k, v) ==
  [x \in (DOMAIN m) \cup {k} |-> IF x \in DOMAIN m THEN m[x] ELSE v]

\* HashMap::insert: the entry is added, or replaced when the key is present
Insert(m, k, v) == [x \in (DOMAIN m) \cup {k} |-> IF x = k THEN v ELSE m[x]]

\* HashMap::remove: nothing happens when the key is absent
Remove(m, k) == [x \in (DOMAIN m) \ {k} |-> m[x]]

\* table t of the namespace holds field f
Has(tables, t, f) == t \in DOMAIN tables /\ f \in DOMAIN tables[t]

\* the orders in which a HashMap with key set S may be iterated
Orders(S) ==
  {o \in [1..Cardinality(S) -> S] : \A k \in S : \E i \in DOMAIN o : o[i] = k}

\* ------------------------------------------------------------------------
\* Snapshot codec: rmp_serde::to_vec / from_slice on the whole namespace
\* ------------------------------------------------------------------------

write_map_len(n) ==
  IF n < 16 THEN <<128 + n>> ELSE <<222, n \div 256, n % 256>>

write_array_len(n) ==
  IF n < 16 THEN <<144 + n>> ELSE <<220, n \div 256, n % 256>>

\* write_u8 without the uint8 marker
write_u8_raw(b) == <<b>>

write_u8(b) == IF b < 128 THEN <<b>> ELSE <<204, b>>

\* Vec<u8> is serialized as a sequence of integers, one per byte
RECURSIVE write_elems(_)
write_elems(v) ==
  IF Len(v) = 0 THEN <<>> ELSE write_u8(Head(v)) \o write_elems(Tail(v))

write_vec(v) == write_array_len(Len(v)) \o write_elems(v)

\* the entries of one table, in iteration order ord
RECURSIVE write_fields(_, _)
write_fields(table, ord) ==
  IF Len(ord) = 0 THEN <<>>
  ELSE write_str(Head(ord)) \o write_vec(table[Head(ord)])
       \o write_fields(table, Tail(ord))

write_table(table, ord) == write_map_len(Len(ord)) \o write_fields(table, ord)

\* the tables, in iteration order ord; ford[t] is the order inside table t
RECURSIVE write_tables(_, _, _)
write_tables(tables, ord, ford) ==
  IF Len(ord) = 0 THEN <<>>
  ELSE write_str(Head(ord)) \o write_table(tables[Head(ord)], ford[Head(ord)])
       \o write_tables(tables, Tail(ord), ford)

\* rmp_serde::to_vec(&*guard)
serialize_db(tables, ord, ford) ==
  write_map_len(Len(ord)) \o write_tables(tables, ord, ford)

\* the outcome of reading one item off the front of a slice
Fail == [ok |-> FALSE, val |-> <<>>, rest |-> <<>>]

Got(val, rest) == [ok |-> TRUE, val |-> val, rest |-> rest]

\* the bytes from position i on
Drop(b, i) == SubSeq(b, i, Len(b))

parse_str(b) ==
  IF Len(b) = 0 THEN Fail
  ELSE IF b[1] >= 160 /\ b[1] < 192 /\ Len(b) >= 1 + (b[1] - 160)
          /\ IsText(SubSeq(b, 2, 1 + (b[1] - 160)))
    THEN Got(SubSeq(b, 2, 1 + (b[1] - 160)), Drop(b, 2 + (b[1] - 160)))
  ELSE IF b[1] = 217 /\ Len(b) >= 2 /\ Len(b) >= 2 + b[2]
          /\ IsText(SubSeq(b, 3, 2 + b[2]))
    THEN Got(SubSeq(b, 3, 2 + b[2]), Drop(b, 3 + b[2]))
  ELSE Fail

parse_u8(b) ==
  IF Len(b) = 0 THEN Fail
  ELSE IF b[1] < 128 THEN Got(b[1], Drop(b, 2))
  ELSE IF b[1] = 204 /\ Len(b) >= 2 THEN Got(b[2], Drop(b, 3))
  ELSE Fail

parse_array_len(b) ==
  IF Len(b) = 0 THEN Fail
  ELSE IF b[1] >= 144 /\ b[1] < 160 THEN Got(b[1] - 144, Drop(b, 2))
  ELSE IF b[1] = 220 /\ Len(b) >= 3 THEN Got(b[2] * 256 + b[3], Drop(b, 4))
  ELSE Fail

parse_map_len(b) ==
  IF Len(b) = 0 THEN Fail
  ELSE IF b[1] >= 128 /\ b[1] < 144 THEN Got(b[1] - 128, Drop(b, 2))
  ELSE IF b[1] = 222 /\ Len(b) >= 3 THEN Got(b[2] * 256 + b[3], Drop(b, 4))
  ELSE Fail

\* n more elements of a Vec<u8>, appended to acc
RECURSIVE parse_elems(_, _, _)
parse_elems(b, n, acc) ==
  IF n = 0 THEN Got(acc, b)
  ELSE LET e == parse_u8(b)
       IN IF e.ok THEN parse_elems(e.rest, n - 1, Append(acc, e.val)) ELSE Fail

parse_vec(b) ==
  LET h == parse_array_len(b)
  IN IF h.ok THEN parse_elems(h.rest, h.val, <<>>) ELSE Fail

\* n more (field, bytes) entries of a table, inserted into acc
RECURSIVE parse_fields(_, _, _)
parse_fields(b, n, acc) ==
  IF n = 0 THEN Got(acc, b)
  ELSE LET k == parse_str(b)
       IN IF ~k.ok THEN Fail
          ELSE LET v == parse_vec(k.rest)
               IN IF ~v.ok THEN Fail
                  ELSE parse_fields(v.rest, n - 1, Insert(acc, k.val, v.val))

parse_table(b) ==
  LET h == parse_map_len(b)
  IN IF h.ok THEN parse_fields(h.rest, h.val, EmptyMap) ELSE Fail

\* n more (table name, table) entries of the namespace, inserted into acc
RECURSIVE parse_tables(_, _, _)
parse_tables(b, n, acc) ==
  IF n = 0 THEN Got(acc, b)
  ELSE LET k == parse_str(b)
       IN IF ~k.ok THEN Fail
          ELSE LET v == parse_table(k.rest)
               IN IF ~v.ok THEN Fail
                  ELSE parse_tables(v.rest, n - 1, Insert(acc, k.val, v.val))

\* rmp_serde::from_slice::<HashMap<..>>: bytes after the value are not read
deserialize_db(slice) ==
  LET h == parse_map_len(slice)
  IN IF h.ok THEN parse_tables(h.rest, h.val, EmptyMap) ELSE Fail

\* ------------------------------------------------------------------------
\* Calls and their results
\* ------------------------------------------------------------------------

\* Error::new(message), by the place that builds it
ErrAppendNoTable == "Attempted to append data to non-existent table."

ErrReadNoTable == "Requested Table does not exist."

ErrReadNoField == "Requested Table entry does not exist."

ErrConvert == "Could not convert data to requested type"

ErrDecodeSlice == "Could not decode slice."

\* what a call handed back to its caller
Ret(kind, message, val, bytes, tables) ==
  [kind |-> kind, message |-> message, val |-> val, bytes |-> bytes,
   tables |-> tables]

NoRet == Ret("none", "", NoVal, <<>>, EmptyMap)

RetUnit == Ret("unit", "", NoVal, <<>>, EmptyMap)

RetErr(message) == Ret("err", message, NoVal, <<>>, EmptyMap)

RetVal(val) == Ret("value", "", val, <<>>, EmptyMap)

RetBytes(bytes) == Ret("bytes", "", NoVal, bytes, EmptyMap)

RetDB(tables) == Ret("db", "", NoVal, <<>>, tables)

\* the call did not return: it unwound with the panic of
\* convert_into_data_type
RetPanic == Ret("panic", "Could not serialize Type", NoVal, <<>>, EmptyMap)

\* the caller dropped the future of the call at the await it was pending at
\* (at is "wait_read" or "wait_write"): nothing is handed back
Cancelled(at) == Ret("cancelled", at, NoVal, <<>>, EmptyMap)

\* one call of a DB method with its arguments
MkCall(op, table_name, field_name, ty, data, slice) ==
  [op |-> op, table_name |-> table_name, field_name |-> field_name,
   ty |-> ty, data |-> data, slice |-> slice]

NoCall == MkCall("none", <<>>, <<>>, "none", NoVal, <<>>)

\* the calls a caller may make with the given names and types; writes is the
\* set of <<field, value>> pairs it may store
CallsOver(tables, fields, writes, types) ==
  {MkCall("create_new_table", t, <<>>, "none", NoVal, <<>>) : t \in tables}
  \cup {MkCall("append_data", t, w[1], "none", w[2], <<>>) :
          t \in tables, w \in writes}
  \cup {MkCall("read_data", tf[1], tf[2], ty, NoVal, <<>>) :
          tf \in tables \X fields, ty \in types}
  \cup {MkCall("remove_data_entry", tf[1], tf[2], "none", NoVal, <<>>) :
          tf \in tables \X fields}
  \cup {MkCall("remove_table", t, <<>>, "none", NoVal, <<>>) : t \in tables}
  \cup {MkCall("to_vec", <<>>, <<>>, "none", NoVal, <<>>)}

\* inputs of the sequential caller
SeqTables == {accounts, test}

SeqFields == {balance, name}

SeqData == {IntVal(100), IntVal(200), StrVal(alice), BoolVal(FALSE)}

SeqCalls == CallsOver(SeqTables, SeqFields, SeqFields \X SeqData, Types)

\* inputs of the concurrent callers
ConcTables == {test}

ConcFields == {balance, name}

ConcWrites == {<<balance, IntVal(100)>>, <<name, StrVal(alice)>>}

ConcCalls == CallsOver(ConcTables, ConcFields, ConcWrites, {"int"})

\* byte slices that are no snapshot: empty, a bool, a map cut short, a map
\* whose table is not a map
BadSlices == {<<>>, <<195>>, <<129>>, <<129, 161, 116, 195>>}

\* ------------------------------------------------------------------------
\* State
\* ------------------------------------------------------------------------

VARIABLES
  db,       \* internal_db_table: the namespace inside the RwLock
  readers,  \* the tasks holding a read guard of the RwLock
  writer,   \* the task holding the write guard, or NoTask
  pc,       \* where each task is in its call
  call,     \* the call each task is making or has last made
  ret,      \* what the last call of each task returned
  written,  \* history: the value last stored at (t, f) by an append_data and
            \* not removed since by remove_data_entry or remove_table
  overlapped \* history: the pairs of tasks whose current or last calls are
            \* both append_data on one table and were in progress together
            \* at a moment when that table existed

vars == <<db, readers, writer, pc, call, ret, written, overlapped>>

Slots == SeqTables \X SeqFields

Init ==
  /\ db = EmptyMap
  /\ readers = {}
  /\ writer = NoTask
  /\ pc = [p \in RaceTasks |-> "idle"]
  /\ call = [p \in RaceTasks |-> NoCall]
  /\ ret = [p \in RaceTasks |-> NoRet]
  /\ written = [s \in Slots |-> NoVal]
  /\ overlapped = {}

\* the history forgets every field of table t
Forget(t) == [s \in Slots |-> IF s[1] = t THEN NoVal ELSE written[s]]

\* ------------------------------------------------------------------------
\* The RwLock
\* ------------------------------------------------------------------------

\* AcquireRead that does not wait for the writer to leave
AcquireRead_past_writer(p) ==
  /\ pc[p] = "wait_read"
  /\ readers' = readers \cup {p}
  /\ pc' = [pc EXCEPT ![p] = "reading"]
  /\ UNCHANGED <<db, writer, call, ret, written, overlapped>>

\* self.internal_db_table.read().await completes
AcquireRead(p) ==
  /\ pc[p] = "wait_read"
  /\ writer = NoTask
  /\ readers' = readers \cup {p}
  /\ pc' = [pc EXCEPT ![p] = "reading"]
  /\ UNCHANGED <<db, writer, call, ret, written, overlapped>>

\* AcquireWrite that does not wait for the readers to leave
AcquireWrite_past_readers(p) ==
  /\ pc[p] = "wait_write"
  /\ writer = NoTask
  /\ writer' = p
  /\ pc' = [pc EXCEPT ![p] = "writing"]
  /\ UNCHANGED <<db, readers, call, ret, written, overlapped>>

\* self.internal_db_table.write().await completes
AcquireWrite(p) ==
  /\ pc[p] = "wait_write"
  /\ writer = NoTask
  /\ readers = {}
  /\ writer' = p
  /\ pc' = [pc EXCEPT ![p] = "writing"]
  /\ UNCHANGED <<db, readers, call, ret, written, overlapped>>

\* ------------------------------------------------------------------------
\* The operations of DB
\* ------------------------------------------------------------------------

\* the tasks with an append_data call on table t in progress next to task
\* p, if t exists
Appending(p, t) ==
  {q \in RaceTasks \ {p} :
     /\ t \in DOMAIN db
     /\ pc[q] # "idle"
     /\ call[q].op = "append_data"
     /\ call[q].table_name = t}

\* the pairs that do not involve the call task p has finished
Others(p) == {pr \in overlapped : p \notin pr}

\* a task calls a method of the DB and reaches its first lock acquisition
Call(p, calls) ==
  /\ pc[p] = "idle"
  /\ \E c \in calls :
       /\ call' = [call EXCEPT ![p] = c]
       /\ pc' = [pc EXCEPT ![p] =
                   IF c.op \in {"create_new_table", "read_data", "to_vec"}
                   THEN "wait_read" ELSE "wait_write"]
       /\ overlapped' = Others(p) \cup
                          (IF c.op = "append_data"
                           THEN {{p, q} : q \in Appending(p, c.table_name)}
                           ELSE {})
  /\ ret' = [ret EXCEPT ![p] = NoRet]
  /\ UNCHANGED <<db, readers, writer, written>>

\* create_new_table_check without the early return
create_new_table_check_always(p) ==
  /\ pc[p] = "reading"
  /\ call[p].op = "create_new_table"
  /\ readers' = readers \ {p}
  /\ pc' = [pc EXCEPT ![p] = "wait_write"]
  /\ UNCHANGED <<db, writer, call, ret, written, overlapped>>

\* create_new_table_check that keeps its read guard while it goes on to ask
\* for the write guard
create_new_table_check_upgrade(p) ==
  /\ pc[p] = "reading"
  /\ call[p].op = "create_new_table"
  /\ IF call[p].table_name \in DOMAIN db
     THEN /\ pc' = [pc EXCEPT ![p] = "idle"]
          /\ ret' = [ret EXCEPT ![p] = RetUnit]
          /\ readers' = readers \ {p}
     ELSE /\ pc' = [pc EXCEPT ![p] = "wait_write"]
          /\ ret' = ret
          /\ readers' = readers
  /\ UNCHANGED <<db, writer, call, written, overlapped>>

\* create_new_table_check that inserts the missing table while it holds the
\* read guard
create_new_table_check_insert(p) ==
  /\ pc[p] = "reading"
  /\ call[p].op = "create_new_table"
  /\ readers' = readers \ {p}
  /\ db' = IF call[p].table_name \in DOMAIN db
           THEN db ELSE Insert(db, call[p].table_name, EmptyMap)
  /\ pc' = [pc EXCEPT ![p] = "idle"]
  /\ ret' = [ret EXCEPT ![p] = RetUnit]
  /\ UNCHANGED <<writer, call, written, overlapped>>

\* create_new_table, first block: look the table up under the read guard
create_new_table_check(p) ==
  /\ pc[p] = "reading"
  /\ call[p].op = "create_new_table"
  /\ readers' = readers \ {p}
  /\ IF call[p].table_name \in DOMAIN db
     THEN /\ pc' = [pc EXCEPT ![p] = "idle"]
          /\ ret' = [ret EXCEPT ![p] = RetUnit]
     ELSE /\ pc' = [pc EXCEPT ![p] = "wait_write"]
          /\ ret' = ret
  /\ UNCHANGED <<db, writer, call, written, overlapped>>

\* create_new_table, after the block: insert an empty table under the write
\* guard, whatever the namespace holds by now
create_new_table_insert(p) ==
  /\ pc[p] = "writing"
  /\ call[p].op = "create_new_table"
  /\ db' = Insert(db, call[p].table_name, EmptyMap)
  /\ writer' = NoTask
  /\ pc' = [pc EXCEPT ![p] = "idle"]
  /\ ret' = [ret EXCEPT ![p] = RetUnit]
  /\ UNCHANGED <<readers, call, written, overlapped>>

\* append_data that creates the table when it is missing
append_data_upsert(p) ==
  /\ pc[p] = "writing"
  /\ call[p].op = "append_data"
  /\ LET t == call[p].table_name
         f == call[p].field_name
         table == IF t \in DOMAIN db THEN db[t] ELSE EmptyMap
     IN /\ db' = Insert(db, t,
                        Insert(table, f, convert_into_data_type(call[p].data)))
        /\ written' = [written EXCEPT ![<<t, f>>] = call[p].data]
        /\ ret' = [ret EXCEPT ![p] = RetUnit]
  /\ writer' = NoTask
  /\ pc' = [pc EXCEPT ![p] = "idle"]
  /\ UNCHANGED <<readers, call, overlapped>>

\* append_data that stores the field in a fresh table, dropping the fields
\* the table held
append_data_fresh(p) ==
  /\ pc[p] = "writing"
  /\ call[p].op = "append_data"
  /\ LET t == call[p].table_name
         f == call[p].field_name
     IN IF t \in DOMAIN db
        THEN /\ db' = [db EXCEPT ![t] =
                         Insert(EmptyMap, f,
                                convert_into_data_type(call[p].data))]
             /\ written' = [written EXCEPT ![<<t, f>>] = call[p].data]
             /\ ret' = [ret EXCEPT ![p] = RetUnit]
        ELSE /\ ret' = [ret EXCEPT ![p] = RetErr(ErrAppendNoTable)]
             /\ UNCHANGED <<db, written>>
  /\ writer' = NoTask
  /\ pc' = [pc EXCEPT ![p] = "idle"]
  /\ UNCHANGED <<readers, call, overlapped>>

\* append_data whose write guard is not released when
\* convert_into_data_type panics
append_data_held(p) ==
  /\ pc[p] = "writing"
  /\ call[p].op = "append_data"
  /\ LET t == call[p].table_name
         f == call[p].field_name
     IN IF t \in DOMAIN db
        THEN IF Encodes(call[p].data)
             THEN /\ db' = [db EXCEPT ![t] =
                              Insert(db[t], f,
                                     convert_into_data_type(call[p].data))]
                  /\ written' = [written EXCEPT ![<<t, f>>] = call[p].data]
                  /\ ret' = [ret EXCEPT ![p] = RetUnit]
                  /\ writer' = NoTask
             ELSE /\ ret' = [ret EXCEPT ![p] = RetPanic]
                  /\ UNCHANGED <<db, written, writer>>
        ELSE /\ ret' = [ret EXCEPT ![p] = RetErr(ErrAppendNoTable)]
             /\ writer' = NoTask
             /\ UNCHANGED <<db, written>>
  /\ pc' = [pc EXCEPT ![p] = "idle"]
  /\ UNCHANGED <<readers, call, overlapped>>

\* append_data: the table is looked up under the write guard; the value is
\* encoded only if the table exists; a panic of convert_into_data_type
\* unwinds the call, which drops the guard
append_data(p) ==
  /\ pc[p] = "writing"
  /\ call[p].op = "append_data"
  /\ LET t == call[p].table_name
         f == call[p].field_name
     IN IF t \in DOMAIN db
        THEN IF Encodes(call[p].data)
             THEN /\ db' = [db EXCEPT ![t] =
                              Insert(db[t], f,
                                     convert_into_data_type(call[p].data))]
                  /\ written' = [written EXCEPT ![<<t, f>>] = call[p].data]
                  /\ ret' = [ret EXCEPT ![p] = RetUnit]
             ELSE /\ ret' = [ret EXCEPT ![p] = RetPanic]
                  /\ UNCHANGED <<db, written>>
        ELSE /\ ret' = [ret EXCEPT ![p] = RetErr(ErrAppendNoTable)]
             /\ UNCHANGED <<db, written>>
  /\ writer' = NoTask
  /\ pc' = [pc EXCEPT ![p] = "idle"]
  /\ UNCHANGED <<readers, call, overlapped>>

\* read_data that reports a missing field as a missing table
read_data_conflated(p) ==
  /\ pc[p] = "reading"
  /\ call[p].op = "read_data"
  /\ LET t == call[p].table_name
         f == call[p].field_name
     IN ret' = [ret EXCEPT ![p] =
          IF Has(db, t, f)
          THEN LET r == rebuild_from_data_type(call[p].ty, db[t][f])
               IN IF r.ok THEN RetVal(r.val) ELSE RetErr(ErrConvert)
          ELSE RetErr(ErrReadNoTable)]
  /\ readers' = readers \ {p}
  /\ pc' = [pc EXCEPT ![p] = "idle"]
  /\ UNCHANGED <<db, writer, call, written, overlapped>>

read_data(p) ==
  /\ pc[p] = "reading"
  /\ call[p].op = "read_data"
  /\ LET t == call[p].table_name
         f == call[p].field_name
     IN ret' = [ret EXCEPT ![p] =
          IF t \in DOMAIN db
          THEN IF f \in DOMAIN db[t]
               THEN LET r == rebuild_from_data_type(call[p].ty, db[t][f])
                    IN IF r.ok THEN RetVal(r.val) ELSE RetErr(ErrConvert)
               ELSE RetErr(ErrReadNoField)
          ELSE RetErr(ErrReadNoTable)]
  /\ readers' = readers \ {p}
  /\ pc' = [pc EXCEPT ![p] = "idle"]
  /\ UNCHANGED <<db, writer, call, written, overlapped>>

\* remove_data_entry that removes from the outer map
remove_data_entry_outer(p) ==
  /\ pc[p] = "writing"
  /\ call[p].op = "remove_data_entry"
  /\ db' = Remove(db, call[p].table_name)
  /\ written' = Forget(call[p].table_name)
  /\ writer' = NoTask
  /\ pc' = [pc EXCEPT ![p] = "idle"]
  /\ ret' = [ret EXCEPT ![p] = RetUnit]
  /\ UNCHANGED <<readers, call, overlapped>>

remove_data_entry(p) ==
  /\ pc[p] = "writing"
  /\ call[p].op = "remove_data_entry"
  /\ LET t == call[p].table_name
         f == call[p].field_name
     IN IF t \in DOMAIN db
        THEN /\ db' = [db EXCEPT ![t] = Remove(db[t], f)]
             /\ written' = [written EXCEPT ![<<t, f>>] = NoVal]
        ELSE UNCHANGED <<db, written>>
  /\ writer' = NoTask
  /\ pc' = [pc EXCEPT ![p] = "idle"]
  /\ ret' = [ret EXCEPT ![p] = RetUnit]
  /\ UNCHANGED <<readers, call, overlapped>>

\* remove_table that empties the table and leaves its name
remove_table_clear(p) ==
  /\ pc[p] = "writing"
  /\ call[p].op = "remove_table"
  /\ db' = IF call[p].table_name \in DOMAIN db
           THEN Insert(db, call[p].table_name, EmptyMap) ELSE db
  /\ written' = Forget(call[p].table_name)
  /\ writer' = NoTask
  /\ pc' = [pc EXCEPT ![p] = "idle"]
  /\ ret' = [ret EXCEPT ![p] = RetUnit]
  /\ UNCHANGED <<readers, call, overlapped>>

remove_table(p) ==
  /\ pc[p] = "writing"
  /\ call[p].op = "remove_table"
  /\ db' = Remove(db, call[p].table_name)
  /\ written' = Forget(call[p].table_name)
  /\ writer' = NoTask
  /\ pc' = [pc EXCEPT ![p] = "idle"]
  /\ ret' = [ret EXCEPT ![p] = RetUnit]
  /\ UNCHANGED <<readers, call, overlapped>>

\* to_vec: serialize under the read guard; the maps are walked in any order
to_vec(p) ==
  /\ pc[p] = "reading"
  /\ call[p].op = "to_vec"
  /\ \E ord \in Orders(DOMAIN db) :
       \E ford \in [DOMAIN db -> UNION {Orders(DOMAIN db[t]) : t \in DOMAIN db}] :
         /\ \A t \in DOMAIN db : ford[t] \in Orders(DOMAIN db[t])
         /\ ret' = [ret EXCEPT ![p] = RetBytes(serialize_db(db, ord, ford))]
  /\ readers' = readers \ {p}
  /\ pc' = [pc EXCEPT ![p] = "idle"]
  /\ UNCHANGED <<db, writer, call, written, overlapped>>

\* the slices a caller has at hand: the snapshot it has just taken, that
\* snapshot cut short by one byte, that snapshot followed by one more byte,
\* and the slices that are no snapshot
SlicesOf(p) ==
  BadSlices \cup
  (IF ret[p].kind = "bytes"
   THEN {ret[p].bytes, SubSeq(ret[p].bytes, 1, Len(ret[p].bytes) - 1),
         ret[p].bytes \o <<0>>}
   ELSE {})

\* DB::from_slice: no lock, no DB yet; the result is a new DB or the error
from_slice(p) ==
  /\ pc[p] = "idle"
  /\ \E slice \in SlicesOf(p) :
       /\ call' = [call EXCEPT ![p] =
                     MkCall("from_slice", <<>>, <<>>, "none", NoVal, slice)]
       /\ ret' = [ret EXCEPT ![p] =
                    LET r == deserialize_db(slice)
                    IN IF r.ok THEN RetDB(r.val) ELSE RetErr(ErrDecodeSlice)]
  /\ overlapped' = Others(p)
  /\ UNCHANGED <<db, readers, writer, pc, written>>

\* what a mutating call c leaves in a namespace that held tables, when no other
\* call runs on that DB: the effects of create_new_table, append_data,
\* remove_data_entry and remove_table
Apply(tables, c) ==
  LET t == c.table_name
      f == c.field_name
  IN CASE c.op = "create_new_table" ->
            IF t \in DOMAIN tables THEN tables ELSE Insert(tables, t, EmptyMap)
       [] c.op = "append_data" ->
            IF t \in DOMAIN tables
            THEN [tables EXCEPT ![t] =
                    Insert(tables[t], f, convert_into_data_type(c.data))]
            ELSE tables
       [] c.op = "remove_data_entry" ->
            IF t \in DOMAIN tables
            THEN [tables EXCEPT ![t] = Remove(tables[t], f)]
            ELSE tables
       [] c.op = "remove_table" -> Remove(tables, t)
       [] OTHER -> tables

\* restored_call on a DB that shares its map with the DB the snapshot was
\* taken from
restored_call_shared(p, calls) ==
  /\ pc[p] = "idle"
  /\ ret[p].kind = "db"
  /\ writer = NoTask /\ readers = {}
  /\ \E c \in {d \in calls : d.op \in {"create_new_table", "append_data",
                                      "remove_data_entry", "remove_table"}} :
       /\ call' = [call EXCEPT ![p] = c]
       /\ ret' = [ret EXCEPT ![p] = RetDB(Apply(ret[p].tables, c))]
       /\ db' = Apply(db, c)
  /\ overlapped' = Others(p)
  /\ UNCHANGED <<readers, writer, pc, written>>

\* the caller that holds the DB from_slice returned calls a mutating method on
\* it and awaits it; that DB has its own lock and map (the Arc from_slice
\* made), and no other task has a handle to it
restored_call(p, calls) ==
  /\ pc[p] = "idle"
  /\ ret[p].kind = "db"
  /\ \E c \in {d \in calls : d.op \in {"create_new_table", "append_data",
                                      "remove_data_entry", "remove_table"}} :
       /\ call' = [call EXCEPT ![p] = c]
       /\ ret' = [ret EXCEPT ![p] = RetDB(Apply(ret[p].tables, c))]
  /\ overlapped' = Others(p)
  /\ UNCHANGED <<db, readers, writer, pc, written>>

\* ------------------------------------------------------------------------
\* Specifications
\* ------------------------------------------------------------------------

\* NumTasks tasks share one DB and call into it concurrently
Next ==
  \E p \in Tasks :
    \/ Call(p, ConcCalls)
    \/ AcquireRead(p)
    \/ AcquireWrite(p)
    \/ create_new_table_check(p)
    \/ create_new_table_insert(p)
    \/ append_data(p)
    \/ read_data(p)
    \/ remove_data_entry(p)
    \/ remove_table(p)
    \/ to_vec(p)

Spec == Init /\ [][Next]_vars

\* one caller awaits each call before it makes the next, as main does
NextSeq ==
  \/ Call(MainTask, SeqCalls)
  \/ AcquireRead(MainTask)
  \/ AcquireWrite(MainTask)
  \/ create_new_table_check(MainTask)
  \/ create_new_table_insert(MainTask)
  \/ append_data(MainTask)
  \/ read_data(MainTask)
  \/ remove_data_entry(MainTask)
  \/ remove_table(MainTask)
  \/ to_vec(MainTask)
  \/ from_slice(MainTask)

SpecSeq == Init /\ [][NextSeq]_vars

\* the inputs of the race: create the table, store one value in each field
RaceCalls == {c \in ConcCalls : c.op \in {"create_new_table", "append_data"}}

\* NumTasks + 1 tasks create the table and append to it concurrently
NextRace ==
  \E p \in RaceTasks :
    \/ Call(p, RaceCalls)
    \/ AcquireRead(p)
    \/ AcquireWrite(p)
    \/ create_new_table_check(p)
    \/ create_new_table_insert(p)
    \/ append_data(p)

SpecRace == Init /\ [][NextRace]_vars

\* the empty DB on which every task has called create_new_table or
\* append_data and is pending at the first await of its call
InitFresh ==
  /\ db = EmptyMap
  /\ readers = {}
  /\ writer = NoTask
  /\ call \in [RaceTasks -> RaceCalls]
  /\ pc = [p \in RaceTasks |->
             IF call[p].op = "create_new_table"
             THEN "wait_read" ELSE "wait_write"]
  /\ ret = [p \in RaceTasks |-> NoRet]
  /\ written = [s \in Slots |-> NoVal]
  /\ overlapped = {}

\* the calls run to their returns; no further call is made
NextFresh ==
  \E p \in RaceTasks :
    \/ AcquireRead(p)
    \/ AcquireWrite(p)
    \/ create_new_table_check(p)
    \/ create_new_table_insert(p)
    \/ append_data(p)

SpecFresh == InitFresh /\ [][NextFresh]_vars

\* a task makes one call; no call was made by it before
CallOnce(p, calls) == call[p] = NoCall /\ Call(p, calls)

\* what task p does once it has made its call: acquire the lock, run the
\* critical section
Step(p) ==
  \/ AcquireRead(p)
  \/ AcquireWrite(p)
  \/ create_new_table_check(p)
  \/ create_new_table_insert(p)
  \/ append_data(p)
  \/ read_data(p)
  \/ remove_data_entry(p)
  \/ remove_table(p)
  \/ to_vec(p)

NextLive == \E p \in Tasks : CallOnce(p, ConcCalls) \/ Step(p)

\* a finite set of calls, one per task, started at any moments; a task that
\* can go on (the lock is free for it, or it holds the lock) does go on
SpecLive == Init /\ [][NextLive]_vars /\ \A p \in Tasks : WF_vars(Step(p))

\* the future of a call is dropped while it is pending at read().await or
\* write().await: the call stops there, holds no guard and hands nothing back
Cancel(p) ==
  /\ pc[p] \in {"wait_read", "wait_write"}
  /\ pc' = [pc EXCEPT ![p] = "idle"]
  /\ ret' = [ret EXCEPT ![p] = Cancelled(pc[p])]
  /\ overlapped' = Others(p)
  /\ UNCHANGED <<db, readers, writer, call, written>>

\* the inputs of the cancelled callers: one table, one field, one value
CancelCalls ==
  CallsOver(ConcTables, {balance}, {<<balance, IntVal(100)>>}, {"int"})

\* tasks call the methods; a pending call may be dropped by its caller
NextCancel == \E p \in Tasks : Call(p, CancelCalls) \/ Step(p) \/ Cancel(p)

SpecCancel == Init /\ [][NextCancel]_vars

\* tasks call the methods of one DB; the main task also restores a DB from
\* the snapshot it took and calls the mutating methods on the restored DB
NextCopy ==
  \/ \E p \in Tasks : Call(p, CancelCalls) \/ Step(p)
  \/ from_slice(MainTask)
  \/ restored_call(MainTask, CancelCalls)

SpecCopy == Init /\ [][NextCopy]_vars

\* the inputs of the failing encoder: one field, a value that encodes and a
\* value that does not
PanicWrites == {<<balance, IntVal(100)>>, <<balance, UnserVal>>}

PanicCalls == CallsOver(ConcTables, {balance}, PanicWrites, {"int"})

\* tasks call the methods; some append_data calls pass a value that cannot
\* be encoded
NextPanic == \E p \in Tasks : Call(p, PanicCalls) \/ Step(p)

SpecPanic == Init /\ [][NextPanic]_vars

\* the inputs of the writers' race: one table, one field, two values
LwwWrites == {<<balance, IntVal(100)>>, <<balance, IntVal(200)>>}

LwwCalls == CallsOver(ConcTables, {balance}, LwwWrites, {"int"})

\* tasks call the methods on one field of one table, any number of times
NextLww == \E p \in Tasks : Call(p, LwwCalls) \/ Step(p)

SpecLww == Init /\ [][NextLww]_vars

\* ------------------------------------------------------------------------
\* Properties
\* ------------------------------------------------------------------------

\* this step is the one in which task p's call of op returns
Finishes(p, op) == call[p].op = op /\ pc[p] # "idle" /\ pc'[p] = "idle"

\* tables a and b agree on table t: both lack it or both hold the same fields
SameTable(a, b, t) ==
  /\ (t \in DOMAIN a) = (t \in DOMAIN b)
  /\ t \in DOMAIN a => a[t] = b[t]

\* tables a and b agree on the slot (t, f)
SameField(a, b, t, f) ==
  /\ Has(a, t, f) = Has(b, t, f)
  /\ Has(a, t, f) => a[t][f] = b[t][f]

\* C1: no create_new_table call clears data: if the table exists when the
\* insertion of the call takes effect, the table holds the same fields and
\* values when the call returns.
C1_CreateNeverClears ==
  [][\A p \in Tasks :
       (Finishes(p, "create_new_table") /\ call[p].table_name \in DOMAIN db)
         => db' = db]_vars

\* C2: with one caller, a create_new_table call on a table that exists
\* changes nothing in the namespace from its start to its return, and when a
\* create_new_table call returns the table exists (so a second call in
\* sequence finds it and changes nothing).
C2_CreateIdempotent ==
  [][/\ (/\ call[MainTask].op = "create_new_table"
         /\ pc[MainTask] # "idle"
         /\ call[MainTask].table_name \in DOMAIN db) => db' = db
     /\ Finishes(MainTask, "create_new_table") =>
          /\ call[MainTask].table_name \in DOMAIN db'
          /\ \A t \in SeqTables \ {call[MainTask].table_name} :
               SameTable(db, db', t)]_vars

\* C2 witness: create_new_table has returned on a table that holds a field
C2_Witness ==
  /\ pc[MainTask] = "idle"
  /\ call[MainTask].op = "create_new_table"
  /\ ret[MainTask] = RetUnit
  /\ Has(db, call[MainTask].table_name, balance)

\* C3: a read_data of (t, f) as type T that follows a successful
\* append_data(t, f, v) with v of type T, nothing in between having touched
\* t or (t, f), returns v, whatever the field held before the append.
C3_WriteReadRoundTrip ==
  [][\A p \in Tasks :
       LET w == written[<<call[p].table_name, call[p].field_name>>]
       IN (Finishes(p, "read_data") /\ w # NoVal /\ w.ty = call[p].ty)
            => ret'[p] = RetVal(w)]_vars

\* C3 witness: a String has been read back from a field
C3_Witness ==
  /\ pc[MainTask] = "idle"
  /\ call[MainTask].op = "read_data"
  /\ call[MainTask].ty = "str"
  /\ ret[MainTask] = RetVal(StrVal(alice))

\* C4: append_data on a table that is absent returns the error of the
\* missing table and changes nothing in the namespace: the table is not
\* created and the field is stored nowhere.
C4_AppendNoTable ==
  [][\A p \in Tasks :
       (Finishes(p, "append_data") /\ call[p].table_name \notin DOMAIN db)
         => /\ ret'[p] = RetErr(ErrAppendNoTable)
            /\ db' = db]_vars

\* C4 witness: an append_data has failed and the table is not there
C4_Witness ==
  /\ pc[MainTask] = "idle"
  /\ call[MainTask].op = "append_data"
  /\ ret[MainTask] = RetErr(ErrAppendNoTable)
  /\ call[MainTask].table_name \notin DOMAIN db
  /\ DOMAIN db # {}

C7_RemoveEntry ==
  [][\A p \in Tasks :
       Finishes(p, "remove_data_entry") =>
         /\ ret'[p] = RetUnit
         /\ DOMAIN db' = DOMAIN db
         /\ ~Has(db', call[p].table_name, call[p].field_name)
         /\ \A s \in Slots \ {<<call[p].table_name, call[p].field_name>>} :
              SameField(db, db', s[1], s[2])]_vars

\* C7 witness: a field has been removed from a table that keeps another
\* field, next to a second table that holds a field
C7_Witness ==
  /\ pc[MainTask] = "idle"
  /\ call[MainTask] = MkCall("remove_data_entry", accounts, name, "none",
                             NoVal, <<>>)
  /\ Has(db, accounts, balance)
  /\ ~Has(db, accounts, name)
  /\ Has(db, test, name)

\* C8: remove_table leaves the table absent and every other table as it
\* was; a table that is absent stays absent until a create_new_table call
\* inserts it, and is then empty; while the table is absent read_data and
\* append_data on it return their missing-table errors.
C8_DropCascades ==
  [][/\ \A p \in Tasks :
          Finishes(p, "remove_table") =>
            /\ call[p].table_name \notin DOMAIN db'
            /\ \A t \in SeqTables \ {call[p].table_name} :
                 SameTable(db, db', t)
     /\ \A t \in SeqTables :
          (t \notin DOMAIN db /\ t \in DOMAIN db') =>
            /\ \E p \in Tasks :
                 Finishes(p, "create_new_table") /\ call[p].table_name = t
            /\ db'[t] = EmptyMap
     /\ \A p \in Tasks :
          call[p].table_name \notin DOMAIN db =>
            /\ Finishes(p, "read_data") => ret'[p] = RetErr(ErrReadNoTable)
            /\ Finishes(p, "append_data") =>
                 ret'[p] = RetErr(ErrAppendNoTable)]_vars

\* C8 witness: a table has been dropped while the other table holds a field
C8_Witness ==
  /\ pc[MainTask] = "idle"
  /\ call[MainTask].op = "remove_table"
  /\ call[MainTask].table_name = accounts
  /\ accounts \notin DOMAIN db
  /\ Has(db, test, name)
  /\ written[<<accounts, balance>>] = NoVal

\* C9: from_slice of the bytes to_vec has just returned succeeds and yields
\* the namespace the DB holds: the same tables, empty ones too, the same
\* fields in each and the same bytes in each field.
C9_SnapshotRoundTrip ==
  [][(/\ ret[MainTask].kind = "bytes"
      /\ call'[MainTask].op = "from_slice"
      /\ call'[MainTask].slice = ret[MainTask].bytes)
       => ret'[MainTask] = RetDB(db)]_vars

\* C9 witness: a namespace of an empty table and a table of two fields, one
\* of them with a byte above 127, has been rebuilt from its snapshot
C9_Witness ==
  /\ call[MainTask].op = "from_slice"
  /\ ret[MainTask] = RetDB(db)
  /\ test \in DOMAIN db
  /\ db[test] = EmptyMap
  /\ Has(db, accounts, balance)
  /\ Has(db, accounts, name)
  /\ db[accounts][name] = convert_into_data_type(StrVal(alice))

\* C10: when two append_data calls that were in progress at the same time,
\* on different fields of one table, have both returned success and neither
\* value has been removed by remove_data_entry or remove_table since, the
\* table holds both values.
C10_NoLostUpdate ==
  \A p \in RaceTasks : \A q \in RaceTasks \ {p} :
    LET t == call[p].table_name
    IN (/\ {p, q} \in overlapped
        /\ pc[p] = "idle" /\ pc[q] = "idle"
        /\ call[q].table_name = t
        /\ call[p].field_name # call[q].field_name
        /\ ret[p] = RetUnit /\ ret[q] = RetUnit
        /\ written[<<t, call[p].field_name>>] = call[p].data
        /\ written[<<t, call[q].field_name>>] = call[q].data)
         => /\ Has(db, t, call[p].field_name)
            /\ db[t][call[p].field_name] = convert_into_data_type(call[p].data)
            /\ Has(db, t, call[q].field_name)
            /\ db[t][call[q].field_name] = convert_into_data_type(call[q].data)

\* C11: while a task holds a read guard the namespace does not change, so a
\* reader sees it as it was at one instant: the bytes to_vec returns are a
\* snapshot of exactly the namespace of that instant, and a value read_data
\* returns is the value the field holds at that instant.
C11_ReaderAtomicity ==
  [][/\ readers # {} => db' = db
     /\ \A p \in Tasks :
          /\ Finishes(p, "to_vec") =>
               /\ ret'[p].kind = "bytes"
               /\ deserialize_db(ret'[p].bytes) = Got(db, <<>>)
          /\ (Finishes(p, "read_data") /\ ret'[p].kind = "value") =>
               /\ Has(db, call[p].table_name, call[p].field_name)
               /\ db[call[p].table_name][call[p].field_name]
                    = convert_into_data_type(ret'[p].val)]_vars

\* C11 witness: to_vec holds the read guard over a table with a field while
\* an append_data waits for the write guard
C11_Witness ==
  \E p \in Tasks : \E q \in Tasks \ {p} :
    /\ pc[p] = "reading"
    /\ call[p].op = "to_vec"
    /\ pc[q] = "wait_write"
    /\ call[q].op = "append_data"
    /\ Has(db, test, balance)

\* the tasks inside a critical section of the write kind and of the read kind
Writing == {p \in RaceTasks : pc[p] = "writing"}

Reading == {p \in RaceTasks : pc[p] = "reading"}

\* C12: at most one task holds the lock in write mode, and while one does no
\* task holds it in read mode; the lock's own record of its holders agrees
\* with where the tasks are.
C12_LockExclusion ==
  /\ Cardinality(Writing) <= 1
  /\ Writing # {} => Reading = {}
  /\ readers = Reading
  /\ Writing = (IF writer = NoTask THEN {} ELSE {writer})

\* C12 witness: read_data and to_vec hold the lock in read mode together
C12_Witness ==
  \E p \in Tasks : \E q \in Tasks \ {p} :
    /\ pc[p] = "reading" /\ call[p].op = "read_data"
    /\ pc[q] = "reading" /\ call[q].op = "to_vec"
    /\ readers = {p, q}

\* task p holds no guard while it asks for one, and never two guards
OneAcquisition(p) ==
  /\ p \in readers => pc[p] = "reading" /\ writer # p
  /\ writer = p => pc[p] = "writing"
  /\ pc[p] \in {"wait_read", "wait_write", "idle"} =>
       p \notin readers /\ writer # p

\* C13: no call holds two acquisitions of the lock at once or holds one
\* while it asks for another, and every call of a finite set of calls
\* returns when a task that can go on does go on.
C13_NoNestingAllReturn ==
  /\ [](\A p \in Tasks : OneAcquisition(p))
  /\ \A p \in Tasks : (pc[p] # "idle") ~> (pc[p] = "idle")

\* C13 witness: every task has made its call and returned, one of them a
\* create_new_table that went through both acquisitions and inserted
C13_Witness ==
  /\ \A p \in Tasks : pc[p] = "idle" /\ call[p] # NoCall
  /\ \E p \in Tasks : \E q \in Tasks \ {p} :
       /\ call[p].op = "create_new_table"
       /\ call[q].op = "append_data"
       /\ ret[q] = RetUnit
       /\ Has(db, call[q].table_name, call[q].field_name)

\* the slice is what to_vec returns for some namespace, walked in some order
IsSnapshot(slice) ==
  LET r == deserialize_db(slice)
  IN /\ r.ok
     /\ \E ord \in Orders(DOMAIN r.val) :
          \E ford \in [DOMAIN r.val ->
                         UNION {Orders(DOMAIN r.val[t]) : t \in DOMAIN r.val}] :
            /\ \A t \in DOMAIN r.val : ford[t] \in Orders(DOMAIN r.val[t])
            /\ serialize_db(r.val, ord, ford) = slice

\* C14: from_slice of a slice that is not a snapshot returns the decode error
\* and no DB; from_slice of a snapshot returns a DB that holds exactly the
\* namespace the snapshot encodes; the DB the caller already has is not
\* touched.
C14_RestoreRejectsInvalid ==
  [][\A p \in Tasks :
       (call'[p].op = "from_slice" /\ call'[p] # call[p]) =>
         /\ db' = db
         /\ IF IsSnapshot(call'[p].slice)
            THEN ret'[p] = RetDB(deserialize_db(call'[p].slice).val)
            ELSE ret'[p] = RetErr(ErrDecodeSlice)]_vars

\* C15: whenever no task holds the write guard, every field that is present
\* holds the encoding of the value of the append_data call on that field that
\* held the write guard last; and when an append_data call on an existing
\* table returns, the field holds the encoding of that call's value, whatever
\* an earlier holder of the write guard stored there.
C15_LastWriterWins ==
  /\ [](writer = NoTask =>
          \A s \in Slots :
            Has(db, s[1], s[2]) =>
              /\ written[s] # NoVal
              /\ db[s[1]][s[2]] = convert_into_data_type(written[s]))
  /\ [][\A p \in Tasks :
          (Finishes(p, "append_data") /\ call[p].table_name \in DOMAIN db) =>
            /\ Has(db', call[p].table_name, call[p].field_name)
            /\ db'[call[p].table_name][call[p].field_name]
                 = convert_into_data_type(call[p].data)]_vars

\* two append_data calls on one field with different values ran concurrently
\* and have both returned Ok; the field holds the value of one of them
C15_Witness ==
  \E p \in Tasks : \E q \in Tasks \ {p} :
    /\ writer = NoTask
    /\ {p, q} \in overlapped
    /\ pc[p] = "idle" /\ pc[q] = "idle"
    /\ ret[p] = RetUnit /\ ret[q] = RetUnit
    /\ call[p].field_name = call[q].field_name
    /\ call[p].data # call[q].data
    /\ Has(db, call[q].table_name, call[q].field_name)
    /\ written[<<call[q].table_name, call[q].field_name>>] = call[q].data
    /\ db[call[q].table_name][call[q].field_name]
         = convert_into_data_type(call[q].data)
    /\ db[call[q].table_name][call[q].field_name]
         # convert_into_data_type(call[p].data)

\* the methods that change the namespace
Mutators ==
  {"create_new_table", "append_data", "remove_data_entry", "remove_table"}

\* C16: in every step that changes the namespace, exactly one task holds the
\* write guard, no task holds a read guard, the change is made by the holder
\* (a mutating call of it, which returns in that step) and no other task
\* moves; a call dropped while it waits for the lock, create_new_table
\* between its check and its insertion included, changes neither the
\* namespace nor the lock, and it has changed nothing before.
C16_MutationUnderWriteGuard ==
  [][/\ db' # db =>
          /\ writer # NoTask
          /\ Writing = {writer}
          /\ readers = {}
          /\ call[writer].op \in Mutators
          /\ Finishes(writer, call[writer].op)
          /\ \A q \in Tasks \ {writer} : pc'[q] = pc[q]
     /\ \A p \in Tasks :
          (pc[p] \in {"wait_read", "wait_write"} /\ pc'[p] = "idle") =>
            /\ ret'[p] = Cancelled(pc[p])
            /\ db' = db /\ readers' = readers /\ writer' = writer
            /\ p \notin readers /\ p # writer]_vars

\* a create_new_table call was dropped between its check and its insertion:
\* the table it found missing is still missing, and the lock is free
C16_Witness ==
  \E p \in Tasks :
    /\ call[p].op = "create_new_table"
    /\ ret[p] = Cancelled("wait_write")
    /\ pc[p] = "idle"
    /\ call[p].table_name \notin DOMAIN db
    /\ writer = NoTask /\ readers = {}

\* C17: when an append_data call returns Ok, the set of tables is the same as
\* before, every other table is the same, and the table holds the fields it
\* held plus the written one, every other field with the bytes it had; no
\* step of an append_data, read_data or remove_data_entry call changes the
\* set of tables, which changes only when a create_new_table or remove_table
\* call returns.
C17_AppendFrame ==
  [][/\ \A p \in Tasks :
          /\ (Finishes(p, "append_data") /\ ret'[p] = RetUnit) =>
               LET t == call[p].table_name
                   f == call[p].field_name
               IN /\ DOMAIN db' = DOMAIN db
                  /\ t \in DOMAIN db
                  /\ \A u \in DOMAIN db \ {t} : db'[u] = db[u]
                  /\ DOMAIN db'[t] = DOMAIN db[t] \cup {f}
                  /\ \A g \in DOMAIN db[t] \ {f} : db'[t][g] = db[t][g]
          /\ (/\ call[p].op \in {"append_data", "read_data", "remove_data_entry"}
              /\ pc[p] # "idle" /\ pc'[p] # pc[p]) =>
               DOMAIN db' = DOMAIN db
     /\ DOMAIN db' # DOMAIN db =>
          \E p \in Tasks : \/ Finishes(p, "create_new_table")
                           \/ Finishes(p, "remove_table")]_vars

\* an append_data call has returned Ok on a table that holds another field
\* as well, next to another table that holds a field
C17_Witness ==
  \E p \in Tasks :
    LET t == call[p].table_name
        f == call[p].field_name
    IN /\ call[p].op = "append_data"
       /\ pc[p] = "idle"
       /\ ret[p] = RetUnit
       /\ Has(db, t, f)
       /\ DOMAIN db[t] # {f}
       /\ \E u \in DOMAIN db \ {t} : DOMAIN db[u] # {}

\* C18: on a DB without the table, where an append_data call on the table and
\* create_new_table calls on it run concurrently and no other call is made:
\* the append_data call returns Ok or the missing-table error; if it is the
\* error and no other call writes the field, the field is absent; if it is
\* Ok, then once a create_new_table call has returned as well, the field
\* holds the appended value, as long as no other call has written the field
\* since.
C18_AppendBesideCreate ==
  \A q \in RaceTasks :
    (call[q].op = "append_data" /\ pc[q] = "idle") =>
      LET t == call[q].table_name
          f == call[q].field_name
      IN /\ ret[q] \in {RetUnit, RetErr(ErrAppendNoTable)}
         /\ (/\ ret[q] = RetErr(ErrAppendNoTable)
             /\ \A r \in RaceTasks \ {q} :
                  ~(call[r].op = "append_data" /\ call[r].field_name = f))
              => ~Has(db, t, f)
         /\ \A p \in RaceTasks \ {q} :
              (/\ call[p].op = "create_new_table"
               /\ call[p].table_name = t
               /\ pc[p] = "idle"
               /\ ret[q] = RetUnit
               /\ written[<<t, f>>] = call[q].data)
                => /\ Has(db, t, f)
                   /\ db[t][f] = convert_into_data_type(call[q].data)

\* this step is a call of a mutating method on the DB that task p got from
\* from_slice
OnRestored(p) ==
  /\ pc[p] = "idle" /\ pc'[p] = "idle"
  /\ ret[p].kind = "db"
  /\ call'[p].op \in Mutators
  /\ call'[p] # call[p] \/ ret'[p] # ret[p]

\* C19: a mutating call on the DB that from_slice returned takes its effect in
\* that DB and leaves the DB the snapshot was taken from, and its lock, as
\* they were; from_slice itself does not touch that DB; and a step that
\* changes the DB the snapshot was taken from leaves every snapshot and every
\* restored DB that a caller holds as it was.
C19_RestoredIndependent ==
  [][/\ \A p \in Tasks :
          /\ OnRestored(p) =>
               /\ db' = db /\ readers' = readers /\ writer' = writer
               /\ ret'[p] = RetDB(Apply(ret[p].tables, call'[p]))
          /\ (call'[p].op = "from_slice" /\ call'[p] # call[p]) =>
               db' = db /\ readers' = readers /\ writer' = writer
     /\ db' # db =>
          \A p \in Tasks :
            (ret[p].kind \in {"bytes", "db"} /\ pc[p] = "idle"
               /\ call'[p] = call[p])
              => ret'[p] = ret[p]]_vars

\* a caller holds a restored DB on which it has called a mutating method,
\* the DB the snapshot was taken from is not empty, and the two differ;
\* another caller holds a snapshot of a namespace that the DB no longer holds
C19_Witness ==
  \E p \in Tasks : \E q \in Tasks \ {p} :
    /\ ret[p].kind = "db"
    /\ call[p].op \in Mutators
    /\ pc[p] = "idle"
    /\ db # EmptyMap
    /\ ret[p].tables # EmptyMap
    /\ ret[p].tables # db
    /\ ret[q].kind = "bytes"
    /\ pc[q] = "idle"
    /\ deserialize_db(ret[q].bytes).val # db
    /\ deserialize_db(ret[q].bytes).val # EmptyMap

\* C20: when append_data finds the table and the value cannot be encoded, the
\* call panics and returns no Error value, the namespace is exactly what it
\* was, and the write guard the call held is released in the same step, so
\* that no task that has panicked holds the lock.
C20_EncodeFailurePanics ==
  /\ [][\A p \in Tasks :
          (/\ Finishes(p, "append_data")
           /\ call[p].table_name \in DOMAIN db
           /\ ~Encodes(call[p].data)) =>
             /\ ret'[p] = RetPanic
             /\ ret'[p].kind # "err"
             /\ db' = db
             /\ writer = p
             /\ writer' = NoTask
             /\ readers' = {}]_vars
  /\ [](\A p \in Tasks :
          ret[p].kind = "panic" =>
            /\ writer # p
            /\ call[p].op = "append_data"
            /\ ~Encodes(call[p].data))

\* an append_data call has panicked on an existing table, and another task
\* holds the lock after it
C20_Witness ==
  \E p \in Tasks : \E q \in Tasks \ {p} :
    /\ ret[p] = RetPanic
    /\ pc[p] = "idle"
    /\ call[p].table_name \in DOMAIN db
    /\ pc[q] \in {"reading", "writing"}

====
